---- MODULE Spec2Model ----
(***************************************************************************)
(* PayPro integration of the accounts API: checkout links (createCheckout),*)
(* webhook validation (validatePayProWebhook, catchErrors), the custom     *)
(* field parser (parsePayProCustomFields) and cancelSubscription.          *)
(*                                                                         *)
(* Strings are sequences of one-character strings, so that joining,        *)
(* scanning and encoding act on characters as the code does.               *)
(***************************************************************************)
EXTENDS Integers, Sequences, FiniteSets, TLC

VARIABLES
    \* parsePayProCustomFields
    customFieldsData,   \* the argument
    lastIndex,          \* customFieldMatch.lastIndex (0-based, as in JS)
    result,             \* the Record<string, string> being built
    parsePc,            \* "loop" | "done"
    iterations,         \* number of successful exec() calls so far
    \* the PayPro webhook behind catchErrors
    validationKey,      \* PAYPRO_IPN_VALIDATION_KEY
    data,               \* the PayProWebhookData of the request being handled
    webhookPc,          \* "idle" | "handler" | "update" | "catch" | "responded"
    thrown,             \* the error the handler threw, or NoError
    response,           \* what the sender gets back, or NoResponse
    authRequests,       \* identity-provider requests made for this notification
    reported,           \* reportError calls made by catchErrors for it
    accepted,           \* the last notification answered 200, or NoData
    \* createCheckout
    options,            \* the argument
    checkoutPc,         \* "idle" | "awaitRates" | "returned" | "threw"
    effects,            \* what the call has done so far, in order
    allUsdRates,        \* what getLatestRates('USD') resolved to
    checkoutUrl,        \* the returned URL, or NoUrl
    checkoutError,      \* the message of the error the call threw, or "none"
    \* cancelSubscription
    subscriptionId,     \* the argument of the call in progress
    cancelPc,           \* "idle" | "awaitResponse" | "completed" | "threw"
    calls,              \* calls of cancelSubscription so far
    posts,              \* POSTs to /api/Subscriptions/Terminate so far
    cancelResponse,     \* the response to the last POST, or NoCancelResponse
    cancelError         \* the message of the error the call threw, or <<>>

parseVars == <<customFieldsData, lastIndex, result, parsePc, iterations>>
webhookVars == <<validationKey, data, webhookPc, thrown, response, authRequests,
                 reported, accepted>>

checkoutVars == <<options, checkoutPc, effects, allUsdRates, checkoutUrl,
                  checkoutError>>

cancelVars == <<subscriptionId, cancelPc, calls, posts, cancelResponse, cancelError>>

vars == <<parseVars, webhookVars, checkoutVars, cancelVars>>

(***************************************************************************)
(* Generic helpers                                                         *)
(***************************************************************************)
RECURSIVE Flatten(_)
Flatten(ss) == IF ss = <<>> THEN <<>> ELSE Head(ss) \o Flatten(Tail(ss))

SeqsUpTo(S, n) == UNION {[1..k -> S] : k \in 0..n}

SetMin(S) == CHOOSE m \in S : \A o \in S : m <= o

(***************************************************************************)
(* parsePayProCustomFields                                                 *)
(*   /x-(\w+)=(.*?)(?=$|,x-\w+)/g                                          *)
(***************************************************************************)
MaxPieces == 5

\* Representatives of the character classes the pattern tells apart: word
\* characters (x, a, 1), the literals '-', '=' and ',', and a line
\* terminator (LF), which '.' does not match. "__proto__" stands for that
\* run of nine word characters, the one key a plain object does not store.
WordChars == {"x", "a", "1", "__proto__"}
LineTerminators == {"LF"}

\* Inputs are built from these pieces, so that the bound reaches two fields.
Pieces ==
    { <<"x", "-", "a", "=">>, <<"x", "-">>, <<"__proto__">>, <<"=">>, <<",">>,
      <<"1">>, <<"LF">> }

CustomFieldInputs == { Flatten(ps) : ps \in SeqsUpTo(Pieces, MaxPieces) }

CharAt(s, i) == IF i >= 1 /\ i <= Len(s) THEN s[i] ELSE "EOF"

\* \w+ : the greedy run of word characters starting at (1-based) position i.
RECURSIVE WordRun(_, _)
WordRun(s, i) == IF CharAt(s, i) \in WordChars THEN 1 + WordRun(s, i + 1) ELSE 0

\* A lookahead that also wants the '=' after the word: (?=$|,x-\w+=).
LookaheadWithEquals(s, e) ==
    \/ e = Len(s) + 1
    \/ /\ CharAt(s, e) = ","
       /\ CharAt(s, e + 1) = "x"
       /\ CharAt(s, e + 2) = "-"
       /\ WordRun(s, e + 3) >= 1
       /\ CharAt(s, e + 3 + WordRun(s, e + 3)) = "="

\* (?=$|,x-\w+) at position e: end of input (no multiline flag), or a comma,
\* "x-" and at least one word character.
Lookahead(s, e) ==
    \/ e = Len(s) + 1
    \/ /\ CharAt(s, e) = ","
       /\ CharAt(s, e + 1) = "x"
       /\ CharAt(s, e + 2) = "-"
       /\ WordRun(s, e + 3) >= 1

\* (.*?) followed by the lookahead: the lazy quantifier tries the shortest
\* value first and takes one more character (never a line terminator) each
\* time the lookahead fails. 0 when it runs out of characters.
RECURSIVE LazyValueEnd(_, _)
LazyValueEnd(s, e) ==
    IF Lookahead(s, e) THEN e
    ELSE IF e <= Len(s) /\ s[e] \notin LineTerminators THEN LazyValueEnd(s, e + 1)
    ELSE 0

NoMatch == [matched |-> FALSE]

\* One attempt of the whole pattern at position i.
MatchAt(s, i) ==
    LET k == WordRun(s, i + 2)
        v == i + 2 + k + 1
    IN  IF /\ CharAt(s, i) = "x"
           /\ CharAt(s, i + 1) = "-"
           /\ k >= 1
           /\ CharAt(s, i + 2 + k) = "="
           /\ LazyValueEnd(s, v) # 0
        THEN [matched |-> TRUE,
              fieldName |-> SubSeq(s, i + 2, i + 1 + k),
              fieldValue |-> SubSeq(s, v, LazyValueEnd(s, v) - 1),
              index |-> i - 1,
              end |-> LazyValueEnd(s, v) - 1]
        ELSE NoMatch

\* customFieldMatch.exec(customFieldsData) with the g flag: the first
\* position at or after lastIndex where the pattern matches.
RECURSIVE ExecFrom(_, _)
ExecFrom(s, i) ==
    IF i > Len(s) THEN NoMatch
    ELSE IF MatchAt(s, i).matched THEN MatchAt(s, i)
    ELSE ExecFrom(s, i + 1)

Exec(s, li) == ExecFrom(s, li + 1)

EmptyRecord == [k \in {} |-> <<>>]

\* An assignment that stores __proto__ like any other key.
SetFieldStoringProto(r, name, value) ==
    [k \in DOMAIN r \cup {name} |-> IF k = name THEN value ELSE r[k]]

\* result[fieldName] = fieldValue on a plain object: "__proto__" names the
\* prototype accessor, which ignores a string, so nothing is stored.
SetField(r, name, value) ==
    IF name = <<"__proto__">> THEN r
    ELSE [k \in DOMAIN r \cup {name} |-> IF k = name THEN value ELSE r[k]]

ParseInit ==
    /\ customFieldsData \in CustomFieldInputs
    /\ lastIndex = 0
    /\ result = EmptyRecord
    /\ parsePc = "loop"
    /\ iterations = 0

\* One pass of the while (true) loop with a match: result[fieldName] = fieldValue.
ExecMatch ==
    /\ parsePc = "loop"
    /\ Exec(customFieldsData, lastIndex).matched
    /\ LET match == Exec(customFieldsData, lastIndex)
       IN  /\ result' = SetField(result, match.fieldName, match.fieldValue)
           /\ lastIndex' = match.end
    /\ iterations' = iterations + 1
    /\ UNCHANGED <<customFieldsData, parsePc>>
    /\ UNCHANGED <<webhookVars, checkoutVars, cancelVars>>

\* if (!match) break; return result
ExecBreak ==
    /\ parsePc = "loop"
    /\ ~Exec(customFieldsData, lastIndex).matched
    /\ parsePc' = "done"
    /\ lastIndex' = 0
    /\ UNCHANGED <<customFieldsData, result, iterations>>
    /\ UNCHANGED <<webhookVars, checkoutVars, cancelVars>>

ParseIdle ==
    /\ customFieldsData = <<>>
    /\ lastIndex = 0
    /\ result = EmptyRecord
    /\ parsePc = "done"
    /\ iterations = 0

ParseNext == ExecMatch \/ ExecBreak

(***************************************************************************)
(* validatePayProWebhook and the webhook request behind catchErrors        *)
(***************************************************************************)
MaxFieldLen == 1

FieldChars == {"1", "2"}
FieldStrings == SeqsUpTo(FieldChars, MaxFieldLen)

\* The configured secret and the one a forger might sign with.
ValidationKeys == {<<"k">>, <<"s">>}

\* PayProIPNTypes; SentIpnTypes are the ones the modelled senders use.
PayProIPNTypes ==
    {"OrderCharged", "OrderChargedBack", "OrderOnWaiting", "SubscriptionRenewed",
     "SubscriptionTerminated", "SubscriptionFinished", "SubscriptionChargeSucceed",
     "SubscriptionChargeFailed", "SubscriptionSuspended"}
SentIpnTypes == {"OrderCharged", "SubscriptionTerminated"}

\* crypto.createHash('sha256').update(key).digest('hex'), taken as
\* collision-free: the digest determines its input and is told apart from
\* any string that is not a digest.
Sha256Hex(key) == <<"sha256">> \o key

BadSignature == <<"BAD-SIGNATURE">>

\* A key that leaves TEST_MODE out.
SignatureKeyWithoutTestMode(d, secret) ==
    Flatten(<< d.ORDER_ID,
               d.ORDER_STATUS,
               d.ORDER_TOTAL_AMOUNT,
               d.CUSTOMER_EMAIL,
               secret,
               d.IPN_TYPE_NAME >>)

\* [ORDER_ID, ..., IPN_TYPE_NAME].join('')
SignatureKey(d, secret) ==
    Flatten(<< d.ORDER_ID,
               d.ORDER_STATUS,
               d.ORDER_TOTAL_AMOUNT,
               d.CUSTOMER_EMAIL,
               secret,
               d.TEST_MODE,
               d.IPN_TYPE_NAME >>)

NoError == [type |-> "none", statusCode |-> 0]
StatusError(code) == [type |-> "StatusError", statusCode |-> code]
PlainError == [type |-> "Error", statusCode |-> 0]

\* The error validatePayProWebhook(data) throws, NoError when it returns.
validatePayProWebhook(d, secret) ==
    LET expectedSignature == Sha256Hex(SignatureKey(d, secret))
    IN  IF d.SIGNATURE # expectedSignature THEN StatusError(403) ELSE NoError

UnsignedBodies ==
    [ORDER_ID : FieldStrings,
     ORDER_STATUS : FieldStrings,
     ORDER_TOTAL_AMOUNT : FieldStrings,
     CUSTOMER_EMAIL : FieldStrings,
     TEST_MODE : {<<"0">>, <<"1">>},
     IPN_TYPE_NAME : {<<t>> : t \in SentIpnTypes}]

Signed(body, signature) ==
    [ORDER_ID |-> body.ORDER_ID,
     ORDER_STATUS |-> body.ORDER_STATUS,
     ORDER_TOTAL_AMOUNT |-> body.ORDER_TOTAL_AMOUNT,
     CUSTOMER_EMAIL |-> body.CUSTOMER_EMAIL,
     TEST_MODE |-> body.TEST_MODE,
     IPN_TYPE_NAME |-> body.IPN_TYPE_NAME,
     SIGNATURE |-> signature]

\* getSignature(body) of the tests, with the key the sender holds.
getSignature(body, senderKey) ==
    LET key == Flatten(<< body.ORDER_ID,
                          body.ORDER_STATUS,
                          body.ORDER_TOTAL_AMOUNT,
                          body.CUSTOMER_EMAIL,
                          senderKey,
                          body.TEST_MODE,
                          body.IPN_TYPE_NAME >>)
    IN  Sha256Hex(key)

\* What a sender may post: a body signed with some key, or with junk.
Notifications ==
    UNION { {Signed(b, sig) :
                sig \in {getSignature(b, k) : k \in ValidationKeys} \cup {BadSignature}} :
            b \in UnsignedBodies }

NoData == Signed([ORDER_ID |-> <<>>, ORDER_STATUS |-> <<>>,
                  ORDER_TOTAL_AMOUNT |-> <<>>, CUSTOMER_EMAIL |-> <<>>,
                  TEST_MODE |-> <<>>, IPN_TYPE_NAME |-> <<>>], <<>>)

NoResponse == [statusCode |-> 0, rethrown |-> FALSE]

\* A catch block that rethrows whatever it caught.
CatchResponseRethrowing(e) == [statusCode |-> 500, rethrown |-> TRUE]

\* catchErrors, after reportError: a StatusError becomes a response with its
\* own status code; anything else is rethrown and the platform answers with
\* a generic server error.
CatchResponse(e) ==
    IF e.type = "StatusError"
    THEN [statusCode |-> e.statusCode, rethrown |-> FALSE]
    ELSE [statusCode |-> 500, rethrown |-> TRUE]

WebhookIdle ==
    /\ validationKey = <<"k">>
    /\ data = NoData
    /\ webhookPc = "idle"
    /\ thrown = NoError
    /\ response = NoResponse
    /\ authRequests = 0
    /\ reported = 0
    /\ accepted = NoData

WebhookInit ==
    /\ validationKey \in ValidationKeys
    /\ data = NoData
    /\ webhookPc = "idle"
    /\ thrown = NoError
    /\ response = NoResponse
    /\ authRequests = 0
    /\ reported = 0
    /\ accepted = NoData

\* A POST to the paypro-webhook function arrives.
ReceiveWebhook(senders) ==
    /\ webhookPc = "idle"
    /\ accepted = NoData
    /\ \E d \in senders : data' = d
    /\ webhookPc' = "handler"
    /\ thrown' = NoError
    /\ response' = NoResponse
    /\ authRequests' = 0
    /\ reported' = 0
    /\ UNCHANGED <<validationKey, accepted>>
    /\ UNCHANGED <<parseVars, checkoutVars, cancelVars>>

\* The handler's first step: validatePayProWebhook(data), which throws or
\* returns without touching anything.
HandlerValidate ==
    /\ webhookPc = "handler"
    /\ thrown' = validatePayProWebhook(data, validationKey)
    /\ webhookPc' = IF thrown' = NoError THEN "update" ELSE "catch"
    /\ UNCHANGED <<validationKey, data, response, authRequests, reported, accepted>>
    /\ UNCHANGED <<parseVars, checkoutVars, cancelVars>>

\* The handler's account update for a validated notification: one request to
\* the identity provider, which answers or fails.
HandlerUpdate ==
    /\ webhookPc = "update"
    /\ authRequests' = authRequests + 1
    /\ \/ /\ response' = [statusCode |-> 200, rethrown |-> FALSE]
          /\ webhookPc' = "responded"
          /\ thrown' = thrown
       \/ /\ thrown' = PlainError
          /\ webhookPc' = "catch"
          /\ response' = response
    /\ UNCHANGED <<validationKey, data, reported, accepted>>
    /\ UNCHANGED <<parseVars, checkoutVars, cancelVars>>

\* catchErrors' catch block: await reportError(e, event), then the response.
CatchErrors ==
    /\ webhookPc = "catch"
    /\ reported' = reported + 1
    /\ response' = CatchResponse(thrown)
    /\ webhookPc' = "responded"
    /\ UNCHANGED <<validationKey, data, thrown, authRequests, accepted>>
    /\ UNCHANGED <<parseVars, checkoutVars, cancelVars>>

WebhookNext ==
    \/ ReceiveWebhook(Notifications)
    \/ HandlerValidate
    \/ HandlerUpdate
    \/ CatchErrors

\* Replay: the sender of a later request has seen an accepted notification
\* and reuses its SIGNATURE for another order, status, amount or email. The
\* fields of both requests are non-empty here.
MaxReplayLen == 2
ReplayStrings == SeqsUpTo({"1"}, MaxReplayLen) \ {<<>>}

\* What PayPro itself sends: bodies signed with the validation key.
GenuineNotifications ==
    {Signed(b, getSignature(b, <<"k">>)) :
        b \in [ORDER_ID : ReplayStrings,
               ORDER_STATUS : ReplayStrings,
               ORDER_TOTAL_AMOUNT : ReplayStrings,
               CUSTOMER_EMAIL : ReplayStrings,
               TEST_MODE : {<<"0">>, <<"1">>},
               IPN_TYPE_NAME : {<<t>> : t \in SentIpnTypes}]}

ReplayInit ==
    /\ validationKey = <<"k">>
    /\ data = NoData
    /\ webhookPc = "idle"
    /\ thrown = NoError
    /\ response = NoResponse
    /\ authRequests = 0
    /\ reported = 0
    /\ accepted = NoData

\* The request is over; an accepted notification is now known to its sender.
FinishWebhook ==
    /\ webhookPc = "responded"
    /\ accepted = NoData
    /\ response.statusCode = 200
    /\ accepted' = data
    /\ webhookPc' = "idle"
    /\ UNCHANGED <<validationKey, data, thrown, response, authRequests, reported>>
    /\ UNCHANGED <<parseVars, checkoutVars, cancelVars>>

ReplayWebhook ==
    /\ webhookPc = "idle"
    /\ accepted # NoData
    /\ \E id, status, amount, email \in ReplayStrings :
          data' = [accepted EXCEPT !.ORDER_ID = id,
                                  !.ORDER_STATUS = status,
                                  !.ORDER_TOTAL_AMOUNT = amount,
                                  !.CUSTOMER_EMAIL = email]
    /\ webhookPc' = "handler"
    /\ thrown' = NoError
    /\ response' = NoResponse
    /\ authRequests' = 0
    /\ reported' = 0
    /\ UNCHANGED <<validationKey, accepted>>
    /\ UNCHANGED <<parseVars, checkoutVars, cancelVars>>

ReplayNext ==
    \/ ReceiveWebhook(GenuineNotifications)
    \/ HandlerValidate
    \/ HandlerUpdate
    \/ CatchErrors
    \/ FinishWebhook
    \/ ReplayWebhook

(***************************************************************************)
(* createCheckout                                                          *)
(***************************************************************************)
MaxPrice == 2
MaxQuantity == 1
MaxRate == 2

SKU_TO_PAYPRO_ID ==
    [sku \in {"pro-monthly", "pro-annual", "team-annual", "team-monthly",
              "pro-perpetual"} |->
        CASE sku = "pro-monthly" -> 79920
          [] sku = "pro-annual" -> 82586
          [] sku = "team-annual" -> 82587
          [] sku = "team-monthly" -> 82588
          [] sku = "pro-perpetual" -> -1]

PAYPRO_CURRENCIES ==
    {"AFN", "DZD", "AED", "ARS", "AMD", "AUD", "AZN", "BSD", "BHD", "BDT",
     "BBD", "BYN", "BZD", "BMD", "BOB", "BWP", "BRL", "GBP", "BND", "BGN",
     "CAD", "CVE", "KYD", "XOF", "CLP", "COP", "CRC", "HRK", "CZK", "DKK",
     "DJF", "DOP", "XCD", "EGP", "EUR", "FJD", "GEL", "GTQ", "HNL", "HKD",
     "HUF", "ISK", "INR", "IDR", "ILS", "JOD", "KHR", "KZT", "KES", "BAM",
     "KRW", "KWD", "KGS", "LAK", "LBP", "MOP", "MKD", "MYR", "MVR", "MXN",
     "MDL", "MNT", "MAD", "NAD", "TRY", "NZD", "NGN", "NOK", "OMR", "PKR",
     "PAB", "PGK", "PYG", "PEN", "PHP", "PLN", "QAR", "RON", "RUB", "SAR",
     "RSD", "SGD", "ZAR", "LKR", "SEK", "CHF", "TWD", "TZS", "THB", "TMT",
     "TTD", "TND", "TJS", "UAH", "USD", "UYU", "UZS", "YER", "CNY", "JPY"}

\* Currencies a request may name; the last two are not PayPro's.
RequestCurrencies == {"USD", "EUR", "XXX", "BTC"}

\* An optional string is absent (empty: falsy either way) or has a value.
Optional(value) == {<<>>, value}

CheckoutOptions ==
    [sku : DOMAIN SKU_TO_PAYPRO_ID,
     email : Optional(<<"me", "@", "example.com">>),
     quantity : 0..MaxQuantity,
     countryCode : Optional(<<"ES">>),
     currency : RequestCurrencies,
     price : 0..MaxPrice,
     source : Optional(<<"site">>),
     returnUrl : Optional(<<"https", ":", "/", "/", "example.com">>),
     passthrough : Optional(<<"{", "}">>)]

\* getLatestRates('USD'): a mapping holding a rate for some currencies.
LatestRates ==
    UNION {[S -> 0..MaxRate] : S \in SUBSET (RequestCurrencies \ PAYPRO_CURRENCIES)}

\* allUsdRates[options.currency]
RateOf(rates, currency) ==
    IF currency \in DOMAIN rates
    THEN [defined |-> TRUE, value |-> rates[currency]]
    ELSE [defined |-> FALSE, value |-> 0]

\* A check that lets a missing rate through.
NoUsdRateNever(usdRate) == FALSE

\* !usdRate
NoUsdRate(usdRate) == ~usdRate.defined \/ usdRate.value = 0

\* Number.prototype.toString() of an integer.
NumberToString(n) == <<ToString(n)>>

\* URLSearchParams.toString(): application/x-www-form-urlencoded. Letters,
\* digits and *-._ stay; every other character becomes %XX.
PercentEncoded ==
    [c \in {"[", "]", "=", "&", "@", ":", "/", "{", "}", "%"} |->
        CASE c = "[" -> "%5B"
          [] c = "]" -> "%5D"
          [] c = "=" -> "%3D"
          [] c = "&" -> "%26"
          [] c = "@" -> "%40"
          [] c = ":" -> "%3A"
          [] c = "/" -> "%2F"
          [] c = "{" -> "%7B"
          [] c = "}" -> "%7D"
          [] c = "%" -> "%25"]

FormEncode(str) ==
    [i \in 1..Len(str) |->
        IF str[i] \in DOMAIN PercentEncoded THEN PercentEncoded[str[i]] ELSE str[i]]

RECURSIVE URLSearchParamsToString(_)
URLSearchParamsToString(params) ==
    IF params = <<>> THEN <<>>
    ELSE FormEncode(Head(params)[1]) \o <<"=">> \o FormEncode(Head(params)[2])
         \o (IF Tail(params) = <<>> THEN <<>>
             ELSE <<"&">> \o URLSearchParamsToString(Tail(params)))

PriceParam(currency) == <<"price", "[", currency, "]", "[", "Amount", "]">>

\* Product params that keep the request's price on the USD path.
ProductParamsKeepingPrice(o, usdRate) ==
    IF o.currency \in PAYPRO_CURRENCIES
    THEN << <<PriceParam(o.currency), NumberToString(o.price)>> >>
    ELSE << <<PriceParam("USD"), NumberToString(o.price)>> >>

\* productParams after the currency branch.
ProductParams(o, usdRate) ==
    IF o.currency \in PAYPRO_CURRENCIES
    THEN << <<PriceParam(o.currency), NumberToString(o.price)>> >>
    ELSE << <<PriceParam("USD"), NumberToString(usdRate.value)>> >>

\* forge's AES-CBC cipher with PAYPRO_PARAM_KEY and PAYPRO_PARAM_IV, kept
\* symbolic: the ciphertext names the key and IV it was made with.
EncryptParams(plaintext) ==
    <<"AES-CBC", "PAYPRO_PARAM_KEY", "PAYPRO_PARAM_IV">> \o plaintext

encode64(bytes) == <<"base64">> \o bytes

IfSet(name, value) == IF value # <<>> THEN << <<name, value>> >> ELSE <<>>

\* checkoutParams, as the list URLSearchParams keeps, in insertion order.
CheckoutParams(o, encryptedParams) ==
    << <<"currency", <<o.currency>> >> >>
    \o IfSet("billing-email", o.email)
    \o IfSet("billing-country", o.countryCode)
    \o IfSet("x-source", o.source)
    \o IfSet("x-passthrough", o.passthrough)
    \o IfSet("x-return-url", o.returnUrl)
    \o << <<"products[1][id]", NumberToString(SKU_TO_PAYPRO_ID[o.sku])>> >>
    \o (IF o.quantity # 0
        THEN << <<"products[1][qty]", NumberToString(o.quantity)>> >>
        ELSE <<>>)
    \o << <<"products[1][data]", encode64(encryptedParams)>> >>

NoUrl == [base |-> "", path |-> "", params |-> <<>>]

\* `${PAYPRO_API_BASE_URL}/checkout?${checkoutParams.toString()}`, the query
\* kept as the parameter list it serializes.
CheckoutUrl(o, usdRate) ==
    [base |-> "PAYPRO_API_BASE_URL",
     path |-> "/checkout",
     params |-> CheckoutParams(o,
                   EncryptParams(URLSearchParamsToString(ProductParams(o, usdRate))))]

NoOptions ==
    [sku |-> "pro-monthly", email |-> <<>>, quantity |-> 0, countryCode |-> <<>>,
     currency |-> "USD", price |-> 0, source |-> <<>>, returnUrl |-> <<>>,
     passthrough |-> <<>>]

NoRates == [c \in {} |-> 0]

CheckoutInit ==
    /\ options = NoOptions
    /\ checkoutPc = "idle"
    /\ effects = <<>>
    /\ allUsdRates = NoRates
    /\ checkoutUrl = NoUrl
    /\ checkoutError = "none"

\* createCheckout with a currency PayPro knows: runs to its return without
\* awaiting anything.
CreateCheckoutSupported ==
    /\ checkoutPc = "idle"
    /\ \E o \in CheckoutOptions :
          /\ o.currency \in PAYPRO_CURRENCIES
          /\ options' = o
          /\ checkoutUrl' = CheckoutUrl(o, RateOf(NoRates, o.currency))
    /\ effects' = <<"encrypt">>
    /\ checkoutPc' = "returned"
    /\ UNCHANGED <<allUsdRates, checkoutError>>
    /\ UNCHANGED <<parseVars, webhookVars, cancelVars>>

\* createCheckout with any other currency, up to await getLatestRates('USD'):
\* reportError is called (not awaited), then the rates are requested.
CreateCheckoutUnsupported ==
    /\ checkoutPc = "idle"
    /\ \E o \in CheckoutOptions :
          /\ o.currency \notin PAYPRO_CURRENCIES
          /\ options' = o
    /\ effects' = <<"reportError", "getLatestRates">>
    /\ checkoutPc' = "awaitRates"
    /\ UNCHANGED <<allUsdRates, checkoutUrl, checkoutError>>
    /\ UNCHANGED <<parseVars, webhookVars, cancelVars>>

\* The rates arrive: throw without a rate, else encrypt and return the URL.
RatesResolve ==
    /\ checkoutPc = "awaitRates"
    /\ \E rates \in LatestRates :
          /\ allUsdRates' = rates
          /\ LET usdRate == RateOf(rates, options.currency)
             IN  IF NoUsdRate(usdRate)
                 THEN /\ checkoutPc' = "threw"
                      /\ checkoutError' = "Can't show PayPro checkout with no USD rate available"
                      /\ UNCHANGED <<effects, checkoutUrl>>
                 ELSE /\ effects' = Append(effects, "encrypt")
                      /\ checkoutUrl' = CheckoutUrl(options, usdRate)
                      /\ checkoutPc' = "returned"
                      /\ UNCHANGED checkoutError
    /\ UNCHANGED options
    /\ UNCHANGED <<parseVars, webhookVars, cancelVars>>

\* getLatestRates rejects: the await throws.
RatesReject ==
    /\ checkoutPc = "awaitRates"
    /\ checkoutPc' = "threw"
    /\ checkoutError' = "getLatestRates rejected"
    /\ UNCHANGED <<options, effects, allUsdRates, checkoutUrl>>
    /\ UNCHANGED <<parseVars, webhookVars, cancelVars>>

CheckoutNext ==
    \/ CreateCheckoutSupported
    \/ CreateCheckoutUnsupported
    \/ RatesResolve
    \/ RatesReject

(***************************************************************************)
(* cancelSubscription                                                      *)
(***************************************************************************)
MaxCalls == 2
MaxSubscriptionId == 2

HttpStatuses == {200, 204, 299, 300, 399, 400, 404, 500}

\* What response.json() gives: a parsed body, or a SyntaxError for a body
\* that is not JSON. isSuccess is true, false or not there at all.
ResponseBodies ==
    [json : {TRUE}, isSuccess : {"true", "false", "absent"}, errors : {<<>>, <<"x">>}]
    \cup {[json |-> FALSE, isSuccess |-> "absent", errors |-> <<>>]}

NoCancelResponse ==
    [status |-> 0, body |-> [json |-> FALSE, isSuccess |-> "absent", errors |-> <<>>]]

\* An ok that takes every status below 400 for a success.
ResponseOkBelow400(status) == status < 400

\* response.ok
ResponseOk(status) == status >= 200 /\ status <= 299

\* `Unexpected ${response.status} during PayPro cancellation`
UnexpectedStatusMessage(status) ==
    <<"Unexpected ", ToString(status), " during PayPro cancellation">>

RequestFailedMessage == <<"PayPro cancellation request failed">>

\* The message of the error the rest of cancelSubscription throws once the
\* response is there, <<>> when it returns.
CancelOutcome(resp) ==
    IF ~ResponseOk(resp.status) THEN UnexpectedStatusMessage(resp.status)
    ELSE IF ~resp.body.json THEN <<"SyntaxError">>
    ELSE IF resp.body.isSuccess # "true" THEN RequestFailedMessage
    ELSE <<>>

CancelInit ==
    /\ subscriptionId = 0
    /\ cancelPc = "idle"
    /\ calls = 0
    /\ posts = 0
    /\ cancelResponse = NoCancelResponse
    /\ cancelError = <<>>

\* A call, up to await fetch(...): one POST. A caller may call again after
\* an earlier call is over.
CancelSubscription ==
    /\ cancelPc \in {"idle", "completed", "threw"}
    /\ calls < MaxCalls
    /\ \E id \in 1..MaxSubscriptionId : subscriptionId' = id
    /\ calls' = calls + 1
    /\ posts' = posts + 1
    /\ cancelPc' = "awaitResponse"
    /\ cancelResponse' = NoCancelResponse
    /\ cancelError' = <<>>
    /\ UNCHANGED <<parseVars, webhookVars, checkoutVars>>

\* The response arrives; the call throws or returns.
CancelResponseArrives ==
    /\ cancelPc = "awaitResponse"
    /\ \E status \in HttpStatuses, body \in ResponseBodies :
          cancelResponse' = [status |-> status, body |-> body]
    /\ cancelError' = CancelOutcome(cancelResponse')
    /\ cancelPc' = IF cancelError' = <<>> THEN "completed" ELSE "threw"
    /\ UNCHANGED <<subscriptionId, calls, posts>>
    /\ UNCHANGED <<parseVars, webhookVars, checkoutVars>>

\* fetch itself rejects (no response at all).
CancelFetchRejects ==
    /\ cancelPc = "awaitResponse"
    /\ cancelError' = <<"FetchError">>
    /\ cancelPc' = "threw"
    /\ UNCHANGED <<subscriptionId, calls, posts, cancelResponse>>
    /\ UNCHANGED <<parseVars, webhookVars, checkoutVars>>

CancelNext ==
    \/ CancelSubscription
    \/ CancelResponseArrives
    \/ CancelFetchRejects

(***************************************************************************)
(* Specifications: one per component; the others stay idle.                *)
(***************************************************************************)
InitParse == ParseInit /\ WebhookIdle /\ CheckoutInit /\ CancelInit
SpecParse == InitParse /\ [][ParseNext]_vars

InitWebhook == ParseIdle /\ WebhookInit /\ CheckoutInit /\ CancelInit
SpecWebhook == InitWebhook /\ [][WebhookNext]_vars

InitReplay == ParseIdle /\ ReplayInit /\ CheckoutInit /\ CancelInit
SpecReplay == InitReplay /\ [][ReplayNext]_vars

InitCheckout == ParseIdle /\ WebhookIdle /\ CheckoutInit /\ CancelInit
SpecCheckout == InitCheckout /\ [][CheckoutNext]_vars

InitCancel == ParseIdle /\ WebhookIdle /\ CheckoutInit /\ CancelInit
SpecCancel == InitCancel /\ [][CancelNext]_vars

(***************************************************************************)
(* Claims about parsePayProCustomFields                                    *)
(***************************************************************************)
\* The scan as the specification words it. withEq: the marker that ends a
\* value is ",x-<word>=" (TRUE) or ",x-<word>" (FALSE). anyChar: a value may
\* hold any character and any key is stored (TRUE), or a value holds no line
\* terminator and the key __proto__ is not stored (FALSE).
MarkerAt(s, e, withEq) ==
    /\ CharAt(s, e) = ","
    /\ CharAt(s, e + 1) = "x"
    /\ CharAt(s, e + 2) = "-"
    /\ IF withEq
       THEN \E k \in 1..Len(s) :
               /\ \A j \in 0..(k - 1) : CharAt(s, e + 3 + j) \in WordChars
               /\ CharAt(s, e + 3 + k) = "="
       ELSE CharAt(s, e + 3) \in WordChars

KeyLenAt(s, i) ==
    IF CharAt(s, i) = "x" /\ CharAt(s, i + 1) = "-"
    THEN LET ks == {k \in 1..Len(s) :
                      /\ \A j \in 0..(k - 1) : CharAt(s, i + 2 + j) \in WordChars
                      /\ CharAt(s, i + 2 + k) = "="}
         IN  IF ks = {} THEN 0 ELSE SetMin(ks)
    ELSE 0

ValueEnds(s, v, withEq, anyChar) ==
    {e \in v..(Len(s) + 1) :
        /\ e = Len(s) + 1 \/ MarkerAt(s, e, withEq)
        /\ anyChar \/ \A j \in v..(e - 1) : s[j] \notin LineTerminators}

FieldStartsAt(s, i, withEq, anyChar) ==
    /\ KeyLenAt(s, i) >= 1
    /\ ValueEnds(s, i + 3 + KeyLenAt(s, i), withEq, anyChar) # {}

FieldEnd(s, i, withEq, anyChar) ==
    SetMin(ValueEnds(s, i + 3 + KeyLenAt(s, i), withEq, anyChar))

\* The start positions of the fields a left-to-right scan from position
\* `from` finds, each scan resuming where the previous value ended.
RECURSIVE FieldStarts(_, _, _, _)
FieldStarts(s, from, withEq, anyChar) ==
    LET cands == {i \in from..Len(s) : FieldStartsAt(s, i, withEq, anyChar)}
    IN  IF cands = {} THEN {}
        ELSE LET i == SetMin(cands)
             IN  {i} \cup FieldStarts(s, FieldEnd(s, i, withEq, anyChar), withEq, anyChar)

KeyOf(s, i) == SubSeq(s, i + 2, i + 1 + KeyLenAt(s, i))

ScannedFields(s, withEq, anyChar) ==
    LET starts == FieldStarts(s, 1, withEq, anyChar)
        keys == {KeyOf(s, i) : i \in starts}
                \ (IF anyChar THEN {} ELSE {<<"__proto__">>})
        last(k) == CHOOSE i \in starts :
                      /\ KeyOf(s, i) = k
                      /\ \A j \in starts : KeyOf(s, j) = k => j <= i
    IN  [k \in keys |->
            SubSeq(s, last(k) + 3 + KeyLenAt(s, last(k)),
                   FieldEnd(s, last(k), withEq, anyChar) - 1)]

ExpectedSignature(d, secret) ==
    Sha256Hex(d.ORDER_ID \o d.ORDER_STATUS \o d.ORDER_TOTAL_AMOUNT
              \o d.CUSTOMER_EMAIL \o secret \o d.TEST_MODE \o d.IPN_TYPE_NAME)

SevenInputs(d, secret) ==
    << d.ORDER_ID, d.ORDER_STATUS, d.ORDER_TOTAL_AMOUNT, d.CUSTOMER_EMAIL,
       secret, d.TEST_MODE, d.IPN_TYPE_NAME >>

MutationChars == FieldChars \cup {"0", "k", "s", "X"} \cup PayProIPNTypes

\* The seven inputs with one character of one of them changed.
SingleCharacterMutations(ins) ==
    UNION { UNION { {[ins EXCEPT ![i][j] = c] : c \in MutationChars \ {ins[i][j]}} :
                    j \in 1..Len(ins[i]) } :
            i \in 1..7 }

ValidationHasRun == webhookPc \in {"update", "catch", "responded"}
ValidationReturned == webhookPc = "update" \/ authRequests > 0

\* C1: validatePayProWebhook returns normally exactly when SIGNATURE is the
\* hex SHA-256 digest of ORDER_ID, ORDER_STATUS, ORDER_TOTAL_AMOUNT,
\* CUSTOMER_EMAIL, the secret, TEST_MODE and IPN_TYPE_NAME joined in this
\* order; otherwise it throws a StatusError with status 403; it changes
\* nothing else; and an accepted signature kept while one character of any of
\* the seven inputs changes is rejected with 403.
C1_SignatureGate ==
    ValidationHasRun =>
        /\ ValidationReturned <=> data.SIGNATURE = ExpectedSignature(data, validationKey)
        /\ ~ValidationReturned => thrown = StatusError(403)
        /\ webhookPc = "update" =>
              /\ thrown = NoError
              /\ authRequests = 0 /\ reported = 0 /\ response = NoResponse
        /\ ValidationReturned =>
              \A m \in SingleCharacterMutations(SevenInputs(data, validationKey)) :
                 validatePayProWebhook(
                    Signed([ORDER_ID |-> m[1], ORDER_STATUS |-> m[2],
                            ORDER_TOTAL_AMOUNT |-> m[3], CUSTOMER_EMAIL |-> m[4],
                            TEST_MODE |-> m[6], IPN_TYPE_NAME |-> m[7]],
                           data.SIGNATURE),
                    m[5]) = StatusError(403)

\* A correctly signed notification with every string field set has passed
\* validation.
C1_Witness ==
    /\ webhookPc = "update"
    /\ data.ORDER_ID = <<"1">> /\ data.ORDER_STATUS = <<"2">>
    /\ data.ORDER_TOTAL_AMOUNT = <<"1">> /\ data.CUSTOMER_EMAIL = <<"2">>
    /\ data.SIGNATURE = ExpectedSignature(data, validationKey)

\* C2: a SIGNATURE accepted for one notification is rejected for any
\* notification that differs from it in ORDER_ID or in CUSTOMER_EMAIL.
C2_NoReplayAcrossOrdersOrEmails ==
    ( /\ accepted # NoData
      /\ ValidationHasRun
      /\ data.SIGNATURE = accepted.SIGNATURE
      /\ \/ data.ORDER_ID # accepted.ORDER_ID
         \/ data.CUSTOMER_EMAIL # accepted.CUSTOMER_EMAIL )
    => ~ValidationReturned

\* C3: a webhook request whose signature does not validate makes no
\* identity-provider request at any point, and is answered with status 403,
\* the StatusError's own code, by catchErrors after one error report.
C3_InvalidWebhookRejected ==
    ( /\ webhookPc # "idle"
      /\ data.SIGNATURE # ExpectedSignature(data, validationKey) )
    => /\ authRequests = 0
       /\ webhookPc = "responded" =>
             /\ response = [statusCode |-> 403, rethrown |-> FALSE]
             /\ reported = 1

\* The test's request: SIGNATURE 'BAD-SIGNATURE', answered 403.
C3_Witness ==
    /\ webhookPc = "responded"
    /\ data.SIGNATURE = BadSignature
    /\ data.CUSTOMER_EMAIL # <<>>
    /\ response.statusCode = 403
    /\ authRequests = 0

(***************************************************************************)
(* Claims about createCheckout                                             *)
(***************************************************************************)
\* What the reader of a checkout URL does: look a parameter up, base64-decode
\* and decrypt the data blob with the configured key and IV, percent-decode.
Param(url, name) ==
    IF \E i \in 1..Len(url.params) : url.params[i][1] = name
    THEN url.params[CHOOSE i \in 1..Len(url.params) : url.params[i][1] = name][2]
    ELSE <<>>

decode64(str) == IF str # <<>> /\ Head(str) = "base64" THEN Tail(str) ELSE <<"garbage">>

DecryptParams(bytes) ==
    IF Len(bytes) >= 3
       /\ SubSeq(bytes, 1, 3) = <<"AES-CBC", "PAYPRO_PARAM_KEY", "PAYPRO_PARAM_IV">>
    THEN SubSeq(bytes, 4, Len(bytes))
    ELSE <<"garbage">>

FormDecode(str) ==
    [i \in 1..Len(str) |->
        IF \E c \in DOMAIN PercentEncoded : PercentEncoded[c] = str[i]
        THEN CHOOSE c \in DOMAIN PercentEncoded : PercentEncoded[c] = str[i]
        ELSE str[i]]

Contains(str, sub) ==
    \E i \in 0..(Len(str) - Len(sub)) : SubSeq(str, i + 1, i + Len(sub)) = sub

DecryptedData == DecryptParams(decode64(Param(checkoutUrl, "products[1][data]")))

CurrencySupported == options.currency \in PAYPRO_CURRENCIES

EffectiveCurrency == IF CurrencySupported THEN options.currency ELSE "USD"
EffectivePrice ==
    IF CurrencySupported THEN options.price ELSE allUsdRates[options.currency]

PriceEntry(currency, amount) ==
    <<"price", "[", currency, "]", "[", "Amount", "]", "=", ToString(amount)>>

\* The characters after the '=' of a one-entry parameter string.
AmountOf(str) ==
    SubSeq(str, 1 + (CHOOSE i \in 1..Len(str) : str[i] = "="), Len(str))

\* C4: createCheckout with 'pro-perpetual' fails with a configuration error,
\* returns no URL, and reports, fetches and encrypts nothing first.
C4_UnsupportedSkuRejected ==
    (checkoutPc # "idle" /\ options.sku = "pro-perpetual")
    => /\ checkoutPc = "threw"
       /\ checkoutError # "none"
       /\ checkoutUrl = NoUrl
       /\ effects = <<>>

\* C5 (as stated): for a supported SKU, the data parameter of a returned URL
\* decrypts to a string containing price[<effectiveCurrency>][Amount]=<price>.
C5_AsStated ==
    (checkoutPc = "returned" /\ options.sku # "pro-perpetual")
    => Contains(DecryptedData, PriceEntry(EffectiveCurrency, EffectivePrice))

\* C5 (amended): for a supported SKU, the data parameter of a returned URL
\* decrypts to a form-urlencoded string which, percent-decoded, contains
\* price[<effectiveCurrency>][Amount]=<effectivePrice>: the request's currency
\* and price when PayPro supports the currency, else USD and the fetched USD
\* rate of the request's currency.
C5_DecryptedPriceEntry ==
    (checkoutPc = "returned" /\ options.sku # "pro-perpetual")
    => Contains(FormDecode(DecryptedData), PriceEntry(EffectiveCurrency, EffectivePrice))

\* A team checkout in a currency PayPro does not know, rate 2, price 1.
C5_Witness ==
    /\ checkoutPc = "returned"
    /\ options.sku = "team-annual"
    /\ options.currency = "XXX"
    /\ options.price = 1
    /\ allUsdRates["XXX"] = 2

\* C6: with an unsupported currency and a rate, the encoded amount is the
\* request's price converted to USD, so a request that differs only in its
\* price encodes a different amount.
C6_AmountDependsOnPrice ==
    (checkoutPc = "returned" /\ ~CurrencySupported)
    => \A p \in (0..MaxPrice) \ {options.price} :
          AmountOf(URLSearchParamsToString(
                      ProductParams([options EXCEPT !.price = p],
                                    RateOf(allUsdRates, options.currency))))
          # AmountOf(DecryptedData)

\* C7: a call with a supported currency reports and fetches nothing; a call
\* with any other currency makes one error report and then one rate fetch
\* (the report never ends the call), and without a rate for the currency it
\* throws after these two, having encrypted nothing and returning no URL.
C7_EffectsByCurrencyPath ==
    checkoutPc # "idle" =>
        /\ CurrencySupported =>
              /\ effects = <<"encrypt">>
              /\ checkoutPc = "returned"
        /\ ~CurrencySupported =>
              /\ Len(effects) >= 2
              /\ SubSeq(effects, 1, 2) = <<"reportError", "getLatestRates">>
              /\ \A i \in 3..Len(effects) : effects[i] = "encrypt"
              /\ checkoutPc = "threw" => effects = <<"reportError", "getLatestRates">>
                                         /\ checkoutUrl = NoUrl
              /\ checkoutPc = "returned" =>
                    /\ options.currency \in DOMAIN allUsdRates
                    /\ effects = <<"reportError", "getLatestRates", "encrypt">>

\* The rates came back without the request's currency.
C7_Witness ==
    /\ checkoutPc = "threw"
    /\ ~CurrencySupported
    /\ checkoutError = "Can't show PayPro checkout with no USD rate available"
    /\ options.currency \notin DOMAIN allUsdRates
    /\ effects = <<"reportError", "getLatestRates">>

\* C10: in every returned URL the visible currency parameter names the
\* currency of the encrypted price entry (USD when the request's currency is
\* not PayPro's).
C10_VisibleCurrencyMatchesPrice ==
    checkoutPc = "returned"
    => Param(checkoutUrl, "currency") = <<FormDecode(DecryptedData)[3]>>

(***************************************************************************)
(* Claims about cancelSubscription                                         *)
(***************************************************************************)
\* C9: every call makes exactly one POST, and the response decides the
\* outcome: a status outside 200..299 throws the transport error; a success
\* status with isSuccess false throws the rejection error, whose message no
\* transport error has; a success status with isSuccess true returns.
C9_CancelOutcome ==
    /\ posts = calls
    /\ (cancelPc \in {"completed", "threw"} /\ cancelResponse # NoCancelResponse) =>
          LET status == cancelResponse.status
              body == cancelResponse.body
              success == status >= 200 /\ status <= 299
          IN  /\ ~success =>
                    /\ cancelPc = "threw"
                    /\ cancelError = UnexpectedStatusMessage(status)
              /\ (success /\ body.json /\ body.isSuccess = "false") =>
                    /\ cancelPc = "threw"
                    /\ cancelError = RequestFailedMessage
                    /\ \A st \in HttpStatuses : cancelError # UnexpectedStatusMessage(st)
              /\ (success /\ body.json /\ body.isSuccess = "true") =>
                    /\ cancelPc = "completed"
                    /\ cancelError = <<>>

\* 200 with {isSuccess: false, errors: ["x"]}.
C9_Witness ==
    /\ cancelPc = "threw"
    /\ posts = 1
    /\ cancelResponse.status = 200
    /\ cancelResponse.body = [json |-> TRUE, isSuccess |-> "false", errors |-> <<"x">>]
    /\ cancelError = RequestFailedMessage
====
